---- MODULE Spec2Model ----
(***************************************************************************)
(* Staff directory resolution and extraction pipeline of app.py:           *)
(* search_for_staff_page, scrape_page_content, compact_relevant_text,      *)
(* robust_json_extract, extract_coaches_with_gemini and                    *)
(* harvest_single_school, as state machines over bounded inputs.           *)
(***************************************************************************)
EXTENDS Integers, Sequences, FiniteSets, TLC

VARIABLES
    pc,          \* position of harvest_single_school (stage or terminal outcome)
    school,      \* the organization argument
    qi,          \* index of the next query of queries[:SERPER_MAX_QUERIES] (0-based)
    brk,         \* the query loop was left by `break`
    best_url,    \* search_for_staff_page: best_url
    best_score,  \* search_for_staff_page: best_score
    staff_url,   \* harvest_single_school: staff_url
    content,     \* harvest_single_school: content
    rows,        \* the list harvest_single_school returns
    sent,        \* history: the queries handed to serper_search, in order
    processed,   \* history: the hits scored so far, in order
    last,        \* history: outcome of the latest external call
    tried,       \* history: scrape strategies attempted, in order
    jtext,       \* robust_json_extract: argument text
    jres,        \* robust_json_extract: returned value
    jpc,         \* robust_json_extract: "call" before, "ret" after
    raw,         \* compact_relevant_text: raw_text, as runs of equal lines
    compacted,   \* compact_relevant_text: returned text
    cpc,         \* compact_relevant_text: "call" before, "ret" after
    resp,        \* extract_coaches_with_gemini: the service's reply
    out,         \* extract_coaches_with_gemini: returned list
    epc,         \* extract_coaches_with_gemini: "call" before, "ret" after
    surl,        \* scrape_page_content: argument url
    sreader,     \* scrape_page_content: response of the reader service
    sdirect,     \* scrape_page_content: response of the direct request
    sret,        \* scrape_page_content: returned text or None
    stried,      \* history: the strategies attempted, in order
    spc          \* scrape_page_content: "call", "direct" (Method 2), "ret"

vars == <<pc, school, qi, brk, best_url, best_score, staff_url, content, rows,
          sent, processed, last, tried, jtext, jres, jpc, raw, compacted, cpc,
          resp, out, epc, surl, sreader, sdirect, sret, stried, spc>>

harvestVars == <<pc, school, qi, brk, best_url, best_score, staff_url, content,
                 rows, sent, processed, last, tried>>
jsonVars == <<jtext, jres, jpc>>
compactVars == <<raw, compacted, cpc>>
extractVars == <<resp, out, epc>>
scrapeVars == <<surl, sreader, sdirect, sret, stried, spc>>

----------------------------------------------------------------------------
(* Bounds of the model.                                                    *)

MaxHits == 3        \* hits returned over all queries of one organization
MaxTextLen == 5     \* tokens of a model reply handed to robust_json_extract
MaxItems == 3       \* items of the array in a model reply
MaxBlocks == 2      \* runs of equal lines in a raw page text

----------------------------------------------------------------------------
(* Python values: None, and str as a sequence of characters.               *)

None == [k |-> "none", s |-> <<>>]
Str(s) == [k |-> "str", s |-> s]
Truthy(v) == v.k = "str" /\ v.s # <<>>
OrEmpty(v) == IF Truthy(v) THEN v ELSE Str(<<>>)

Min(a, b) == IF a < b THEN a ELSE b

----------------------------------------------------------------------------
(* Program constants.                                                      *)

SERPER_MAX_QUERIES == 4
INITIAL_BEST_SCORE == -10
EARLY_STOP_SCORE == 70

----------------------------------------------------------------------------
(* Query planning.                                                         *)

Schools == {"Harvard", "Bowdoin"}

\* KNOWN_ATHLETICS_DOMAINS lookup: the mapped domain, or None.
domain_for_school(sch) ==
    IF sch = "Harvard" THEN Str(<<"gocrimson.com">>) ELSE None

\* The ordered query plan; the domain-scoped query exists only with a mapping.
build_serper_queries(sch) ==
    (IF Truthy(domain_for_school(sch)) THEN <<"site_domain">> ELSE <<>>)
        \o <<"site_edu", "athletics", "inurl">>

\* queries[:SERPER_MAX_QUERIES]
PlannedQueries(sch) ==
    SubSeq(build_serper_queries(sch), 1,
           Min(Len(build_serper_queries(sch)), SERPER_MAX_QUERIES))

----------------------------------------------------------------------------
(* Search hits and their score.  A hit carries its link and the outcome of *)
(* every substring test score_search_result makes on it.                   *)

Hit(link, inDom, inEdu, inAthl, hint, titleStaff, nTitle, nSnippet, nUrl, at, negUrl, negTitle) ==
    [link |-> link, inDom |-> inDom, inEdu |-> inEdu, inAthl |-> inAthl,
     hint |-> hint, titleStaff |-> titleStaff, nTitle |-> nTitle,
     nSnippet |-> nSnippet, nUrl |-> nUrl, at |-> at, negUrl |-> negUrl,
     negTitle |-> negTitle]

HitNoise  == Hit(Str(<<"u_recap">>), FALSE, FALSE, FALSE, FALSE, FALSE, 0, 0, 0,
                 FALSE, TRUE, TRUE)
HitFloor  == Hit(Str(<<"u_roster">>), FALSE, FALSE, FALSE, FALSE, FALSE, 1, 1, 1,
                 FALSE, TRUE, FALSE)
HitMidA   == Hit(Str(<<"u_a">>), FALSE, TRUE, FALSE, TRUE, FALSE, 0, 0, 0,
                 FALSE, FALSE, FALSE)
HitMidB   == Hit(Str(<<"u_b">>), FALSE, TRUE, FALSE, TRUE, FALSE, 0, 0, 0,
                 FALSE, FALSE, FALSE)
HitGood   == Hit(Str(<<"u_staff">>), FALSE, FALSE, FALSE, TRUE, TRUE, 1, 1, 1,
                 FALSE, FALSE, FALSE)
HitBest   == Hit(Str(<<"u_dom">>), TRUE, FALSE, TRUE, TRUE, TRUE, 0, 0, 0,
                 TRUE, FALSE, FALSE)
HitNoLink == Hit(None, FALSE, FALSE, FALSE, FALSE, TRUE, 0, 0, 0,
                 TRUE, FALSE, FALSE)

\* The hits the search provider may return for an organization: a link can
\* contain the organization's own domain only if it has one.
HitPool(sch) ==
    {h \in {HitNoise, HitFloor, HitMidA, HitMidB, HitGood, HitBest, HitNoLink} :
        h.inDom => Truthy(domain_for_school(sch))}

score_search_result(h, sch) ==
    LET domain == IF Truthy(domain_for_school(sch)) /\ h.inDom THEN 35
                  ELSE IF h.inEdu THEN 20
                  ELSE IF h.inAthl THEN 25
                  ELSE 5
        hints  == (IF h.hint THEN 30 ELSE 0) + (IF h.titleStaff THEN 15 ELSE 0)
        sport  == 8 * h.nTitle + 6 * h.nSnippet + 6 * h.nUrl
        email  == IF h.at THEN 25 ELSE 0
        penal  == (IF h.negUrl THEN 35 ELSE 0) + (IF h.negTitle THEN 20 ELSE 0)
    IN  domain + hints + sport + email - penal

\* `if s > best_score`
BetterGE(s, best) == s >= best
Better(s, best) == s > best

\* The inner loop `for r in results`: <<best_url, best_score>> after the hits.
RECURSIVE ScanResults(_, _, _, _, _)
ScanResults(results, i, url, score, sch) ==
    IF i > Len(results) THEN <<url, score>>
    ELSE LET link == OrEmpty(results[i].link)
             s    == score_search_result(results[i], sch)
         IN  IF Better(s, score)
             THEN ScanResults(results, i + 1, link, s, sch)
             ELSE ScanResults(results, i + 1, url, score, sch)

\* `if best_score >= 70: break`
EarlyStopNever(score) == FALSE
EarlyStop(score) == score >= EARLY_STOP_SCORE

\* Sequences over S of length 0..n.
SeqUpTo(S, n) == UNION {[1..m -> S] : m \in 0..n}

----------------------------------------------------------------------------
(* Text of a model reply, as tokens:                                       *)
(*   "[" "]" "{" "}" ","   JSON punctuation                                *)
(*   " "                   whitespace                                      *)
(*   "F"                   a code-fence marker ```                         *)
(*   "w"                   a word of prose (no JSON)                       *)
(*   "s"                   the JSON string literal "x"                     *)
(*   "t"                   the JSON string literal "x```"                  *)
(*   "m1", "m2", ...       the members of one object, see ItemOf           *)

Missing == [k |-> "missing", s |-> <<>>]   \* the key is absent
Null == [k |-> "null", s |-> <<>>]         \* JSON null

Item(name, title, email) == [coach_name |-> name, title |-> title, email |-> email]

ItemOf(tok) ==
    CASE tok = "m1" -> Item(Str(<<"B","o","b">>), Str(<<"H","C">>), Str(<<"b","@","x">>))
      [] tok = "m2" -> Item(Str(<<"B","O","B">>), Str(<<"h","c">>), Null)
      [] tok = "m3" -> Item(Str(<<" ","B","o","b"," ">>), Missing, Str(<<" ","b","@","x"," ">>))
      [] tok = "m4" -> Item(Str(<<"A","n","n">>), Str(<<"N","/","A">>), Str(<<"n","/","a">>))
      [] tok = "m5" -> Item(Str(<<"A","l">>), Str(<<"H","C">>), Null)
      [] tok = "m6" -> Item(Null, Str(<<"H","C">>), Str(<<"b","@","x">>))
      [] tok = "m7" -> Item(Str(<<"A","n","n">>), Str(<<"n","o","n","e">>), Str(<<"b","o","b">>))
      [] tok = "m8" -> Item(Str(<<"a","n","n">>), Str(<<"S","T","A","F","F">>), Str(<<>>))
      [] tok = "m9" -> Item(Missing, Null, Missing)
      [] tok = "m10" -> Item(Str(<<"N","/","A">>), Str(<<>>), Str(<<"N","o","n","e">>))

MemberTokens == {"m1", "m2", "m3", "m4", "m5", "m6", "m7", "m8", "m9", "m10"}
StringTokens == {"s", "t"}

\* JSON values as json.loads builds them.
JArr(items) == [k |-> "arr", items |-> items]
JObj(item) == [k |-> "obj", item |-> item]
JStr(chars) == [k |-> "str", chars |-> chars]
JNone == [k |-> "none"]

StringValue(tok) == IF tok = "s" THEN JStr(<<"x">>) ELSE JStr(<<"x", "F">>)

ParseFail == [ok |-> FALSE, val |-> JNone, next |-> 0]
ParseOk(v, n) == [ok |-> TRUE, val |-> v, next |-> n]

\* Recursive descent over the tokens from position i: one JSON value.
RECURSIVE ParseValue(_, _), ParseElems(_, _, _)
ParseValue(t, i) ==
    IF i > Len(t) THEN ParseFail
    ELSE IF t[i] \in StringTokens THEN ParseOk(StringValue(t[i]), i + 1)
    ELSE IF t[i] = "["
         THEN IF i + 1 <= Len(t) /\ t[i + 1] = "]"
              THEN ParseOk(JArr(<<>>), i + 2)
              ELSE ParseElems(t, i + 1, <<>>)
    ELSE IF t[i] = "{"
         THEN IF i + 1 <= Len(t) /\ t[i + 1] = "}"
              THEN ParseOk(JObj(Item(Missing, Missing, Missing)), i + 2)
              ELSE IF i + 2 <= Len(t) /\ t[i + 1] \in MemberTokens /\ t[i + 2] = "}"
                   THEN ParseOk(JObj(ItemOf(t[i + 1])), i + 3)
                   ELSE ParseFail
    ELSE ParseFail

ParseElems(t, i, acc) ==
    LET r == ParseValue(t, i)
    IN  IF ~r.ok \/ r.next > Len(t) THEN ParseFail
        ELSE IF t[r.next] = "]" THEN ParseOk(JArr(Append(acc, r.val)), r.next + 1)
        ELSE IF t[r.next] = "," THEN ParseElems(t, r.next + 1, Append(acc, r.val))
        ELSE ParseFail

NotSpace(c) == c # " "

\* json.loads: whitespace between tokens is skipped, the whole text is one value.
json_loads(t) ==
    LET u == SelectSeq(t, NotSpace)
        r == ParseValue(u, 1)
    IN  IF r.ok /\ r.next = Len(u) + 1 THEN [ok |-> TRUE, val |-> r.val]
        ELSE [ok |-> FALSE, val |-> JNone]

\* str.strip() on tokens.
RECURSIVE LStrip(_)
LStrip(t) == IF t # <<>> /\ Head(t) = " " THEN LStrip(Tail(t)) ELSE t
RECURSIVE RStrip(_)
RStrip(t) == IF t # <<>> /\ t[Len(t)] = " " THEN RStrip(SubSeq(t, 1, Len(t) - 1)) ELSE t
Strip(t) == RStrip(LStrip(t))

\* .replace("```", ""): every marker goes, also inside a string literal.
RECURSIVE RemoveFences(_)
RemoveFences(t) ==
    IF t = <<>> THEN <<>>
    ELSE IF Head(t) = "F" THEN RemoveFences(Tail(t))
    ELSE IF Head(t) = "t" THEN <<"s">> \o RemoveFences(Tail(t))
    ELSE <<Head(t)>> \o RemoveFences(Tail(t))

\* line 69: t = text.strip().replace("", "").replace("```", "").strip()
Clean(text) == Strip(RemoveFences(Strip(text)))

Positions(t, c) == {i \in 1..Len(t) : t[i] = c}
SetMin(S) == CHOOSE x \in S : \A y \in S : x <= y
SetMax(S) == CHOOSE x \in S : \A y \in S : x >= y

\* re.search(open [\s\S]* close, t): leftmost opener, greedy to the last closer.
GreedyMatch(t, open, close) ==
    IF Positions(t, open) = {} \/ Positions(t, close) = {} THEN [ok |-> FALSE, m |-> <<>>]
    ELSE LET i == SetMin(Positions(t, open))
             j == SetMax(Positions(t, close))
         IN  IF i < j THEN [ok |-> TRUE, m |-> SubSeq(t, i, j)]
             ELSE [ok |-> FALSE, m |-> <<>>]

ArrayAttempt(t) ==
    LET m == GreedyMatch(t, "[", "]")
    IN  IF m.ok THEN json_loads(m.m) ELSE [ok |-> FALSE, val |-> JNone]

ObjectAttempt(t) ==
    LET m == GreedyMatch(t, "{", "}")
        r == json_loads(m.m)
    IN  IF m.ok /\ r.ok THEN [ok |-> TRUE, val |-> JArr(<<r.val>>)]
        ELSE [ok |-> FALSE, val |-> JNone]

robust_json_extract_ObjectFirst(text) ==
    IF text = <<>> THEN JNone
    ELSE LET t == Clean(text)
         IN  IF json_loads(t).ok THEN json_loads(t).val
             ELSE IF ObjectAttempt(t).ok THEN ObjectAttempt(t).val
             ELSE IF ArrayAttempt(t).ok THEN ArrayAttempt(t).val
             ELSE JNone

robust_json_extract(text) ==
    IF text = <<>> THEN JNone
    ELSE LET t == Clean(text)
         IN  IF json_loads(t).ok THEN json_loads(t).val
             ELSE IF ArrayAttempt(t).ok THEN ArrayAttempt(t).val
             ELSE IF ObjectAttempt(t).ok THEN ObjectAttempt(t).val
             ELSE JNone

----------------------------------------------------------------------------
(* Record validation and de-duplication of extract_coaches_with_gemini.    *)

Upper == {"A", "B", "C", "E", "F", "H", "L", "N", "O", "S", "T"}
LowerChar(c) ==
    CASE c = "A" -> "a" [] c = "B" -> "b" [] c = "C" -> "c" [] c = "E" -> "e"
      [] c = "F" -> "f" [] c = "H" -> "h" [] c = "L" -> "l" [] c = "N" -> "n"
      [] c = "O" -> "o" [] c = "S" -> "s" [] c = "T" -> "t" [] OTHER -> c

\* str.lower()
Lower(cs) == [i \in 1..Len(cs) |-> LowerChar(cs[i])]

\* str(x) of a JSON field value; a missing key takes the default "".
PyStrOf(f) ==
    CASE f.k = "missing" -> <<>>
      [] f.k = "null" -> <<"N", "o", "n", "e">>
      [] OTHER -> f.s

PlaceholderTokens == {<<"n","o","n","e">>, <<"n","u","l","l">>, <<"n","/","a">>}
TitlePlaceholderTokens == {<<"n","o","n","e">>, <<"n","u","l","l">>}

HasAt(cs) == \E i \in 1..Len(cs) : cs[i] = "@"

\* line 398: the item is dropped
NameRejected(name) ==
    name = <<>> \/ Len(name) < 3 \/ Lower(name) \in PlaceholderTokens

\* lines 401-406
NormalizeEmail(f) ==
    IF f.k \in {"missing", "null"} THEN None
    ELSE LET e == Strip(f.s)
         IN  IF e = <<>> \/ Lower(e) \in PlaceholderTokens \/ ~HasAt(e) THEN None
             ELSE Str(e)

\* line 411
DefaultTitle(title) ==
    IF title # <<>> /\ Lower(title) \notin TitlePlaceholderTokens THEN title
    ELSE <<"S", "t", "a", "f", "f">>

\* What `for c in coaches` yields: the items of a list, the keys of a dict,
\* the characters of a str.
PresentKeys(item) ==
    (IF item.coach_name.k # "missing" THEN <<JStr(<<"coach_name">>)>> ELSE <<>>)
    \o (IF item.title.k # "missing" THEN <<JStr(<<"title">>)>> ELSE <<>>)
    \o (IF item.email.k # "missing" THEN <<JStr(<<"email">>)>> ELSE <<>>)

Iterate(v) ==
    CASE v.k = "arr" -> v.items
      [] v.k = "obj" -> PresentKeys(v.item)
      [] v.k = "str" -> [i \in 1..Len(v.chars) |-> JStr(<<v.chars[i]>>)]
      [] OTHER -> <<>>

\* `if not coaches`
Falsy(v) ==
    \/ v.k = "none"
    \/ v.k = "arr" /\ v.items = <<>>
    \/ v.k = "obj" /\ PresentKeys(v.item) = <<>>
    \/ v.k = "str" /\ v.chars = <<>>

\* lines 390-413: the loop that builds `cleaned`
RECURSIVE CleanItems(_, _, _)
CleanItems(cs, i, sch) ==
    IF i > Len(cs) THEN <<>>
    ELSE IF cs[i].k # "obj" THEN CleanItems(cs, i + 1, sch)
    ELSE LET name  == Strip(PyStrOf(cs[i].item.coach_name))
             title == Strip(PyStrOf(cs[i].item.title))
         IN  IF NameRejected(name) THEN CleanItems(cs, i + 1, sch)
             ELSE <<[school |-> sch,
                     coach_name |-> Str(name),
                     title |-> Str(DefaultTitle(title)),
                     email |-> NormalizeEmail(cs[i].item.email)]>>
                  \o CleanItems(cs, i + 1, sch)

\* line 419
DedupeKeyNameOnly(c) == <<Lower(c.coach_name.s), <<>>>>
DedupeKey(c) == <<Lower(c.coach_name.s), Lower(c.title.s)>>

\* lines 416-423
RECURSIVE Dedupe(_, _, _)
Dedupe(cleaned, i, seen) ==
    IF i > Len(cleaned) THEN <<>>
    ELSE IF DedupeKey(cleaned[i]) \in seen THEN Dedupe(cleaned, i + 1, seen)
    ELSE <<cleaned[i]>> \o Dedupe(cleaned, i + 1, seen \cup {DedupeKey(cleaned[i])})

\* Replies of the generative service: an exception, or a status with a text.
GeminiRaised == [exc |-> TRUE, status |-> 0, text |-> <<>>]
GeminiReply(status, text) == [exc |-> FALSE, status |-> status, text |-> text]

\* lines 375-430, for a non-empty content
extract_coaches_with_gemini(reply, sch) ==
    IF reply.exc \/ reply.status # 200 THEN <<>>
    ELSE LET coaches == robust_json_extract(reply.text)
         IN  IF Falsy(coaches) THEN <<>>
             ELSE Dedupe(CleanItems(Iterate(coaches), 1, sch), 1, {})

----------------------------------------------------------------------------
(* compact_relevant_text.  A line of the raw text carries its stripped     *)
(* text (txt), its stripped length (len) and the outcome of the three      *)
(* tests made on it: EMAIL_RE, a sport term, a staff keyword.  A text is   *)
(* a sequence of runs [n, line]: n consecutive copies of one line.         *)

MAX_CONTENT_CHARS_FOR_GEMINI == 12000
COMPACT_FLOOR_CHARS == 800
FALLBACK_LINES == 200

Line(txt, len, email, sport, kw) ==
    [txt |-> txt, len |-> len, email |-> email, sport |-> sport, kw |-> kw]

LineEmail     == Line("mail", 20, TRUE, FALSE, FALSE)
LineEmailLong == Line("mail-row", 900, TRUE, TRUE, TRUE)
LineStaff     == Line("coach", 100, FALSE, FALSE, TRUE)
LinePlain     == Line("nav", 100, FALSE, FALSE, FALSE)
LineBlank     == Line("", 0, FALSE, FALSE, FALSE)

LinePool == {LineEmail, LineEmailLong, LineStaff, LinePlain, LineBlank}
RunLengths == {1, 150, 200}
Blocks == [n : RunLengths, line : LinePool]

\* line 243: `if ln.strip()`
NonBlank(b) == b.line.len > 0
\* lines 249-257: the three tests that keep a line
RelevantNoEmail(b) == b.line.sport \/ b.line.kw
Relevant(b) == b.line.email \/ b.line.sport \/ b.line.kw

\* number of lines, and len("\n".join(lines)), of a text
RECURSIVE CountLines(_)
CountLines(bs) == IF bs = <<>> THEN 0 ELSE Head(bs).n + CountLines(Tail(bs))
RECURSIVE SumLen(_)
SumLen(bs) ==
    IF bs = <<>> THEN 0 ELSE Head(bs).n * Head(bs).line.len + SumLen(Tail(bs))
JoinLen(bs) == IF CountLines(bs) = 0 THEN 0 ELSE SumLen(bs) + CountLines(bs) - 1

\* lines[:k]
RECURSIVE Take(_, _)
Take(bs, k) ==
    IF bs = <<>> \/ k = 0 THEN <<>>
    ELSE <<[n |-> Min(Head(bs).n, k), line |-> Head(bs).line]>>
         \o Take(Tail(bs), k - Min(Head(bs).n, k))

\* "\n".join(lines)[:budget], the first line starting at offset off: per run,
\* the number of copies kept whole (full) and the characters kept of the copy
\* the cut falls in (part).
RECURSIVE TruncateFrom(_, _, _)
TruncateFrom(bs, off, budget) ==
    IF bs = <<>> \/ off >= budget THEN <<>>
    ELSE LET b    == Head(bs)
             room == budget - off - b.line.len
             full == IF room < 0 THEN 0 ELSE Min(b.n, (room \div (b.line.len + 1)) + 1)
             at   == off + full * (b.line.len + 1)
             part == IF full < b.n /\ at < budget THEN budget - at ELSE 0
         IN  <<[txt |-> b.line.txt, len |-> b.line.len, full |-> full, part |-> part]>>
             \o TruncateFrom(Tail(bs), off + b.n * (b.line.len + 1), budget)

compact_relevant_text(rawLines) ==
    LET lines == SelectSeq(rawLines, NonBlank)
        keep  == SelectSeq(lines, Relevant)
    IN  IF rawLines = <<>> THEN <<>>
        ELSE IF JoinLen(keep) < COMPACT_FLOOR_CHARS
        THEN TruncateFrom(Take(lines, FALLBACK_LINES), 0, MAX_CONTENT_CHARS_FOR_GEMINI)
        ELSE TruncateFrom(keep, 0, MAX_CONTENT_CHARS_FOR_GEMINI)

----------------------------------------------------------------------------
(* scrape_page_content.  A response is an exception, or a status with the  *)
(* length of its text (for the direct fetch: of the visible text).         *)

SCRAPE_MIN_CHARS == 500

HttpRaised == [exc |-> TRUE, status |-> 0, len |-> 0]
HttpResponse(status, len) == [exc |-> FALSE, status |-> status, len |-> len]
NoResponse == [exc |-> FALSE, status |-> 0, len |-> 0]   \* no request made
HttpOutcomes ==
    {HttpRaised} \cup {HttpResponse(st, n) : st \in {200, 404},
                                             n \in {SCRAPE_MIN_CHARS, SCRAPE_MIN_CHARS + 1}}

NoContent == [k |-> "none", via |-> "", len |-> 0]
PageText(via, len) == [k |-> "text", via |-> via, len |-> len]
HasContent(c) == c.k = "text" /\ c.len > 0

ReaderOkAnyStatus(reader) == ~reader.exc /\ reader.len > SCRAPE_MIN_CHARS
ReaderOk(reader) ==
    ~reader.exc /\ reader.status = 200 /\ reader.len > SCRAPE_MIN_CHARS

\* the strategies attempted, in order
StrategiesTried(url, reader) ==
    IF ~Truthy(url) THEN <<>>
    ELSE IF ReaderOk(reader) THEN <<"reader">>
    ELSE <<"reader", "direct">>

scrape_page_content(url, reader, direct) ==
    IF ~Truthy(url) THEN NoContent
    ELSE IF ReaderOk(reader) THEN PageText("reader", reader.len)
    ELSE IF direct.exc \/ direct.status # 200 THEN NoContent
    ELSE IF direct.len > SCRAPE_MIN_CHARS THEN PageText("direct", direct.len)
    ELSE NoContent

----------------------------------------------------------------------------
(* harvest_single_school.                                                  *)

Terminal == {"DONE", "NOT_FOUND_NO_PAGE", "NOT_FOUND_SCRAPE_FAILED",
             "NOT_FOUND_EXTRACTION_FAILED"}

SentinelNoUrl(sch, title, url) ==
    [school |-> sch, coach_name |-> None, title |-> Str(<<title>>),
     email |-> None, source_url |-> None]
Sentinel(sch, title, url) ==
    [school |-> sch, coach_name |-> None, title |-> Str(<<title>>),
     email |-> None, source_url |-> url]

\* lines 535-539: the metadata put on each extracted record
WithSource(coaches, url) ==
    [i \in 1..Len(coaches) |->
        [school |-> coaches[i].school, coach_name |-> coaches[i].coach_name,
         title |-> coaches[i].title, email |-> coaches[i].email,
         source_url |-> url]]

\* Replies of the generative service seen by the pipeline.
PipelineReplies ==
    {GeminiRaised, GeminiReply(500, <<"w">>)}
    \cup {GeminiReply(200, t) : t \in
            {<<>>,
             <<"w">>,
             <<"[", "]">>,
             <<"[", "{", "m1", "}", "]">>,
             <<"[", "{", "m5", "}", "]">>,
             <<"[", "{", "m4", "}", ",", "s", "]">>,
             <<"w", " ", "F", "w", " ", "[", "{", "m1", "}", ",", "{", "m2", "}",
               ",", "{", "m7", "}", "]", " ", "F">>,
             <<"{", "m1", "}">>,
             <<"w", "{", "m3", "}">>}}

InSearchLoop == pc = "SEARCHING" /\ ~brk /\ qi < Len(PlannedQueries(school))

\* lines 212-217: serper_search raises; `continue`
SearchQueryRaisesAndBreaks ==
    /\ InSearchLoop
    /\ sent' = Append(sent, PlannedQueries(school)[qi + 1])
    /\ qi' = qi + 1
    /\ brk' = TRUE
    /\ last' = "search_error"
    /\ UNCHANGED <<pc, school, best_url, best_score, staff_url, content, rows,
                   processed, tried>>
    /\ UNCHANGED <<jsonVars, compactVars, extractVars, scrapeVars>>

SearchQueryRaises ==
    /\ InSearchLoop
    /\ sent' = Append(sent, PlannedQueries(school)[qi + 1])
    /\ qi' = qi + 1
    /\ last' = "search_error"
    /\ UNCHANGED <<pc, school, brk, best_url, best_score, staff_url, content, rows,
                   processed, tried>>
    /\ UNCHANGED <<jsonVars, compactVars, extractVars, scrapeVars>>

\* lines 208-229: serper_search returns its hits, all are scored, early stop
SearchQueryReturns ==
    /\ InSearchLoop
    /\ \E results \in SeqUpTo(HitPool(school), MaxHits - Len(processed)) :
          LET b == ScanResults(results, 1, best_url, best_score, school)
          IN  /\ best_url' = b[1]
              /\ best_score' = b[2]
              /\ brk' = EarlyStop(b[2])
              /\ processed' = processed \o results
    /\ sent' = Append(sent, PlannedQueries(school)[qi + 1])
    /\ qi' = qi + 1
    /\ last' = "search_ok"
    /\ UNCHANGED <<pc, school, staff_url, content, rows, tried>>
    /\ UNCHANGED <<jsonVars, compactVars, extractVars, scrapeVars>>

\* lines 231 and 498-509: the search returns, `if not staff_url`
SearchReturnsAlwaysScrapes ==
    /\ pc = "SEARCHING"
    /\ brk \/ qi = Len(PlannedQueries(school))
    /\ staff_url' = best_url
    /\ pc' = "SCRAPING"
    /\ UNCHANGED <<school, qi, brk, best_url, best_score, content, rows, sent,
                   processed, last, tried>>
    /\ UNCHANGED <<jsonVars, compactVars, extractVars, scrapeVars>>

SearchReturns ==
    /\ pc = "SEARCHING"
    /\ brk \/ qi = Len(PlannedQueries(school))
    /\ staff_url' = best_url
    /\ IF ~Truthy(best_url)
       THEN /\ pc' = "NOT_FOUND_NO_PAGE"
            /\ rows' = <<Sentinel(school, "NOT FOUND - No staff page", None)>>
       ELSE /\ pc' = "SCRAPING"
            /\ rows' = rows
    /\ UNCHANGED <<school, qi, brk, best_url, best_score, content, sent, processed,
                   last, tried>>
    /\ UNCHANGED <<jsonVars, compactVars, extractVars, scrapeVars>>

\* lines 515-526
Scrape ==
    /\ pc = "SCRAPING"
    /\ \E reader \in HttpOutcomes, direct \in HttpOutcomes :
          LET c == scrape_page_content(staff_url, reader, direct)
          IN  /\ content' = c
              /\ tried' = StrategiesTried(staff_url, reader)
              /\ last' = IF HasContent(c) THEN "scrape_ok" ELSE "scrape_error"
              /\ IF ~HasContent(c)
                 THEN /\ pc' = "NOT_FOUND_SCRAPE_FAILED"
                      /\ rows' = <<Sentinel(school, "NOT FOUND - Scrape failed", staff_url)>>
                 ELSE /\ pc' = "EXTRACTING"
                      /\ rows' = rows
    /\ UNCHANGED <<school, qi, brk, best_url, best_score, staff_url, sent, processed>>
    /\ UNCHANGED <<jsonVars, compactVars, extractVars, scrapeVars>>

\* lines 531-551
Extract ==
    /\ pc = "EXTRACTING"
    /\ \E reply \in PipelineReplies :
          LET coaches == IF HasContent(content)
                         THEN extract_coaches_with_gemini(reply, school) ELSE <<>>
          IN  /\ last' = IF reply.exc \/ reply.status # 200
                         THEN "extract_error" ELSE "extract_ok"
              /\ IF coaches # <<>>
                 THEN /\ pc' = "DONE"
                      /\ rows' = WithSource(coaches, staff_url)
                 ELSE /\ pc' = "NOT_FOUND_EXTRACTION_FAILED"
                      /\ rows' = <<Sentinel(school, "NOT FOUND - Extraction failed",
                                            staff_url)>>
    /\ UNCHANGED <<school, qi, brk, best_url, best_score, staff_url, content, sent,
                   processed, tried>>
    /\ UNCHANGED <<jsonVars, compactVars, extractVars, scrapeVars>>

JsonIdle == jtext = <<>> /\ jres = JNone /\ jpc = "idle"
CompactIdle == raw = <<>> /\ compacted = <<>> /\ cpc = "idle"
ExtractIdle == resp = GeminiRaised /\ out = <<>> /\ epc = "idle"
ScrapeIdle ==
    /\ surl = None /\ sreader = NoResponse /\ sdirect = NoResponse
    /\ sret = NoContent /\ stried = <<>> /\ spc = "idle"
HarvestIdle ==
    /\ pc = "idle" /\ school = "Harvard" /\ qi = 0 /\ brk = FALSE
    /\ best_url = None /\ best_score = INITIAL_BEST_SCORE
    /\ staff_url = None /\ content = NoContent /\ rows = <<>>
    /\ sent = <<>> /\ processed = <<>> /\ last = "none" /\ tried = <<>>

\* line 205 and the entry of harvest_single_school
Init ==
    /\ pc = "SEARCHING"
    /\ school \in Schools
    /\ qi = 0 /\ brk = FALSE
    /\ best_url = None /\ best_score = INITIAL_BEST_SCORE
    /\ staff_url = None /\ content = NoContent /\ rows = <<>>
    /\ sent = <<>> /\ processed = <<>> /\ last = "none" /\ tried = <<>>
    /\ JsonIdle /\ CompactIdle /\ ExtractIdle /\ ScrapeIdle

Next ==
    \/ SearchQueryRaises
    \/ SearchQueryReturns
    \/ SearchReturns
    \/ Scrape
    \/ Extract

Spec == Init /\ [][Next]_vars

----------------------------------------------------------------------------
(* robust_json_extract on its own, over every short token text.            *)

JsonAlphabet == {"[", "]", "{", "}", ",", "F", "w", "t", "m1"}

InitJson ==
    /\ HarvestIdle /\ CompactIdle /\ ExtractIdle /\ ScrapeIdle
    /\ jtext \in SeqUpTo(JsonAlphabet, MaxTextLen)
    /\ jres = JNone
    /\ jpc = "call"

RobustJsonExtractCall ==
    /\ jpc = "call"
    /\ jres' = robust_json_extract(jtext)
    /\ jpc' = "ret"
    /\ UNCHANGED <<jtext, harvestVars, compactVars, extractVars, scrapeVars>>

SpecJson == InitJson /\ [][RobustJsonExtractCall]_vars

----------------------------------------------------------------------------
(* compact_relevant_text on its own.                                       *)

InitCompact ==
    /\ HarvestIdle /\ JsonIdle /\ ExtractIdle /\ ScrapeIdle
    /\ raw \in SeqUpTo(Blocks, MaxBlocks)
    /\ compacted = <<>>
    /\ cpc = "call"

CompactCall ==
    /\ cpc = "call"
    /\ compacted' = compact_relevant_text(raw)
    /\ cpc' = "ret"
    /\ UNCHANGED <<raw, harvestVars, jsonVars, extractVars, scrapeVars>>

SpecCompact == InitCompact /\ [][CompactCall]_vars

----------------------------------------------------------------------------
(* extract_coaches_with_gemini on its own, over every short item list.     *)

ElementTokens == MemberTokens \cup {"s"}

ElementText(tok) == IF tok \in MemberTokens THEN <<"{", tok, "}">> ELSE <<tok>>

RECURSIVE JoinElements(_)
JoinElements(elems) ==
    IF elems = <<>> THEN <<>>
    ELSE IF Len(elems) = 1 THEN ElementText(elems[1])
    ELSE ElementText(elems[1]) \o <<",">> \o JoinElements(Tail(elems))

ArrayText(elems) == <<"[">> \o JoinElements(elems) \o <<"]">>

ExtractReplies ==
    {GeminiRaised, GeminiReply(500, <<"w">>)}
    \cup {GeminiReply(200, ArrayText(elems)) : elems \in SeqUpTo(ElementTokens, MaxItems)}
    \cup {GeminiReply(200, ElementText(tok)) : tok \in ElementTokens}

InitExtract ==
    /\ HarvestIdle /\ JsonIdle /\ CompactIdle /\ ScrapeIdle
    /\ resp \in ExtractReplies
    /\ out = <<>>
    /\ epc = "call"

ExtractCall ==
    /\ epc = "call"
    /\ out' = extract_coaches_with_gemini(resp, school)
    /\ epc' = "ret"
    /\ UNCHANGED <<resp, harvestVars, jsonVars, compactVars, scrapeVars>>

SpecExtract == InitExtract /\ [][ExtractCall]_vars

----------------------------------------------------------------------------
(* scrape_page_content on its own, one step per request it makes.          *)

ScrapeUrls == {None, Str(<<>>), Str(<<"u_staff">>), Str(<<"u_dom">>)}

\* What a request can produce: an exception (also one raised while the
\* markup is parsed), or a status with the length of the text.
ScrapeResponses ==
    {HttpRaised} \cup {HttpResponse(st, n) :
                         st \in {200, 404, 503},
                         n \in {0, SCRAPE_MIN_CHARS, SCRAPE_MIN_CHARS + 1,
                                SCRAPE_MIN_CHARS + 2}}

InitScrape ==
    /\ HarvestIdle /\ JsonIdle /\ CompactIdle /\ ExtractIdle
    /\ surl \in ScrapeUrls
    /\ sreader = NoResponse /\ sdirect = NoResponse
    /\ sret = NoContent /\ stried = <<>>
    /\ spc = "call"

\* lines 271-272: `if not url: return None`
ScrapeNoUrl ==
    /\ spc = "call"
    /\ ~Truthy(surl)
    /\ sret' = NoContent
    /\ spc' = "ret"
    /\ UNCHANGED <<surl, sreader, sdirect, stried>>
    /\ UNCHANGED <<harvestVars, jsonVars, compactVars, extractVars>>

\* lines 274-286: Method 1, the reader service
ScrapeReader ==
    /\ spc = "call"
    /\ Truthy(surl)
    /\ \E r \in ScrapeResponses :
          /\ sreader' = r
          /\ IF ReaderOk(r)
             THEN /\ sret' = PageText("reader", r.len)
                  /\ spc' = "ret"
             ELSE /\ sret' = sret
                  /\ spc' = "direct"
    /\ stried' = Append(stried, "reader")
    /\ UNCHANGED <<surl, sdirect>>
    /\ UNCHANGED <<harvestVars, jsonVars, compactVars, extractVars>>

\* lines 288-316: Method 2, the direct request, and the final `return None`
ScrapeDirect ==
    /\ spc = "direct"
    /\ \E r \in ScrapeResponses :
          /\ sdirect' = r
          /\ sret' = IF r.exc \/ r.status # 200 THEN NoContent
                     ELSE IF r.len > SCRAPE_MIN_CHARS THEN PageText("direct", r.len)
                     ELSE NoContent
    /\ stried' = Append(stried, "direct")
    /\ spc' = "ret"
    /\ UNCHANGED <<surl, sreader>>
    /\ UNCHANGED <<harvestVars, jsonVars, compactVars, extractVars>>

NextScrape == ScrapeNoUrl \/ ScrapeReader \/ ScrapeDirect

SpecScrape == InitScrape /\ [][NextScrape]_vars

----------------------------------------------------------------------------
(* Properties of the search loop and of the pipeline.                      *)

ScoreOf(i) == score_search_result(processed[i], school)
ScoredAbove == {i \in 1..Len(processed) : ScoreOf(i) > INITIAL_BEST_SCORE}
MaxSeen == SetMax({INITIAL_BEST_SCORE} \cup {ScoreOf(i) : i \in 1..Len(processed)})
FirstAtMax == SetMin({i \in 1..Len(processed) : ScoreOf(i) = MaxSeen})

\* C1: once best_score is >= 70 after the hits of a query have been scored,
\* no later query is sent to the search provider.
C1_NoQueryAfterEarlyStop ==
    [][best_score >= EARLY_STOP_SCORE => sent' = sent]_vars

\* C1 witness: the search returned with queries of the plan left unsent, and a
\* hit that followed the first hit of score >= 70 was still scored.
C1_Witness ==
    /\ pc = "SCRAPING"
    /\ Len(sent) < Len(PlannedQueries(school))
    /\ \E i \in 1..Len(processed) :
          /\ ScoreOf(i) >= EARLY_STOP_SCORE
          /\ i < Len(processed)
          /\ best_score > ScoreOf(i)

\* C2: what harvest_single_school returns is either one or more records that
\* all have a name, or exactly one sentinel record with null name and email,
\* the title of the failing stage, and a source URL that is null for "no page"
\* and the selected URL for the two later failures; nothing is returned before
\* a terminal outcome.
IsSentinel(r, title, url) ==
    /\ r.coach_name = None
    /\ r.email = None
    /\ r.title = Str(<<title>>)
    /\ r.source_url = url

C2_ReturnShape ==
    /\ pc \notin Terminal => rows = <<>>
    /\ pc = "DONE" =>
          /\ Len(rows) >= 1
          /\ \A i \in 1..Len(rows) : rows[i].coach_name.k = "str"
    /\ pc = "NOT_FOUND_NO_PAGE" =>
          /\ Len(rows) = 1
          /\ IsSentinel(rows[1], "NOT FOUND - No staff page", None)
    /\ pc = "NOT_FOUND_SCRAPE_FAILED" =>
          /\ Len(rows) = 1
          /\ Truthy(best_url)
          /\ IsSentinel(rows[1], "NOT FOUND - Scrape failed", best_url)
    /\ pc = "NOT_FOUND_EXTRACTION_FAILED" =>
          /\ Len(rows) = 1
          /\ Truthy(best_url)
          /\ IsSentinel(rows[1], "NOT FOUND - Extraction failed", best_url)

\* C2 witness: both scrape strategies failed and one sentinel row came back.
C2_Witness ==
    /\ pc = "NOT_FOUND_SCRAPE_FAILED"
    /\ tried = <<"reader", "direct">>
    /\ Len(rows) = 1
    /\ rows[1].source_url = best_url

\* C3: the orchestrator only moves forward SEARCHING -> SCRAPING -> EXTRACTING
\* -> DONE; scraping starts only with a URL, extraction only with content; each
\* NOT_FOUND_* outcome is reached from its own stage; a terminal outcome is
\* never left; and every run ends in a terminal outcome: whatever the external
\* calls did, a stage that is not terminal can take a step, and every step
\* raises a bounded measure (the stage, then the number of queries sent).
ForwardMoves ==
    {<<"SEARCHING", "SCRAPING">>, <<"SEARCHING", "NOT_FOUND_NO_PAGE">>,
     <<"SCRAPING", "EXTRACTING">>, <<"SCRAPING", "NOT_FOUND_SCRAPE_FAILED">>,
     <<"EXTRACTING", "DONE">>, <<"EXTRACTING", "NOT_FOUND_EXTRACTION_FAILED">>}

ForwardStep ==
    pc' # pc =>
        /\ <<pc, pc'>> \in ForwardMoves
        /\ pc' = "SCRAPING" => Truthy(best_url) /\ staff_url' = best_url
        /\ pc' = "EXTRACTING" => HasContent(content')

TerminalStays == pc \in Terminal => pc' = pc

StageRank(p) ==
    CASE p = "SEARCHING" -> 0
      [] p = "SCRAPING" -> 1
      [] p = "EXTRACTING" -> 2
      [] OTHER -> 3

Measure == StageRank(pc) * (SERPER_MAX_QUERIES + 1) + Len(sent)
MeasureGrows == Measure' > Measure /\ Measure' <= 3 * (SERPER_MAX_QUERIES + 1) + SERPER_MAX_QUERIES

C3_ForwardOnly ==
    /\ [][ForwardStep]_vars
    /\ [][TerminalStays]_vars
    /\ [][MeasureGrows]_vars
    /\ [](pc \in Terminal \/ ENABLED Next)
    /\ [](pc \in {"SEARCHING", "SCRAPING", "EXTRACTING"} \cup Terminal)

\* C3 witness: the reader failed, the direct fetch succeeded, the extraction
\* call failed: the run ended in the extraction outcome.
C3_Witness ==
    /\ pc = "NOT_FOUND_EXTRACTION_FAILED"
    /\ tried = <<"reader", "direct">>
    /\ last = "extract_error"

\* C4: a failed search call leaves (best_url, best_score) as they were and
\* does not end the query loop: while queries of the plan remain, the next one
\* is issued, and queries are sent in plan order.
QueryStep ==
    sent' # sent =>
        /\ sent' = Append(sent, PlannedQueries(school)[Len(sent) + 1])
        /\ last' = "search_error" =>
              /\ best_url' = best_url
              /\ best_score' = best_score
              /\ pc' = "SEARCHING"
              /\ ~brk'

C4_SearchFailureIsNotFatal ==
    /\ [][QueryStep]_vars
    /\ [](pc = "SEARCHING" /\ last = "search_error"
             /\ Len(sent) < Len(PlannedQueries(school))
          => ENABLED SearchQueryReturns /\ ~ENABLED SearchReturns)

\* C4 witness: a query failed after an earlier one had found a candidate, and
\* the loop goes on.
C4_Witness ==
    /\ last = "search_error"
    /\ Truthy(best_url)
    /\ InSearchLoop

\* C5: the outcome is NOT_FOUND_NO_PAGE exactly when no hit scored above -10;
\* with a hit above -10 the pipeline goes on to scraping with the best URL.
C5_NoPageIffNoCandidate ==
    pc # "SEARCHING" =>
        /\ pc = "NOT_FOUND_NO_PAGE" <=> ScoredAbove = {}
        /\ ScoredAbove # {} => staff_url = best_url /\ Truthy(staff_url)

\* C10: (best_url, best_score) starts at (None, -10); best_score is the maximum
\* of -10 and the scores of the hits processed; best_url is the link of the
\* first hit that attains it; best_url is None iff no hit scored above -10.
C10_BestIsFirstMaximum ==
    /\ processed = <<>> => best_url = None /\ best_score = INITIAL_BEST_SCORE
    /\ best_score = MaxSeen
    /\ best_url = None <=> ScoredAbove = {}
    /\ ScoredAbove # {} => best_url = OrEmpty(processed[FirstAtMax].link)

\* C10 witness: two hits with different links tie at the maximum and the
\* first one is kept.
C10_Witness ==
    \E i, j \in 1..Len(processed) :
        /\ i < j
        /\ ScoreOf(i) = MaxSeen /\ ScoreOf(j) = MaxSeen
        /\ processed[i].link # processed[j].link
        /\ best_url = processed[i].link

----------------------------------------------------------------------------
(* Properties of robust_json_extract.                                      *)

Tokens(t) == {t[i] : i \in 1..Len(t)}

\* The result the three strategies give on text t, tried in order.
FirstSuccess(direct, t) ==
    IF direct.ok THEN direct.val
    ELSE IF ArrayAttempt(t).ok THEN ArrayAttempt(t).val
    ELSE IF ObjectAttempt(t).ok THEN ObjectAttempt(t).val
    ELSE JNone

\* C6 as stated: strategy 1 parses the full trimmed response, the code-fence
\* markers are stripped for strategies 2 and 3 only.
C6_DirectParseOfTrimmedResponse ==
    jpc = "ret" => jres = FirstSuccess(json_loads(Strip(jtext)), Clean(jtext))

\* C6 amended: every code-fence marker is removed before strategy 1 too; on
\* the cleaned text the result is that of the first strategy that succeeds
\* (direct parse, greedy [...] parsed as array, greedy {...} parsed and
\* wrapped in a one-element array), null if none does, and null yields zero
\* records.
C6_Amended ==
    jpc = "ret" =>
        LET t  == Clean(jtext)
            r1 == json_loads(t)
            r2 == ArrayAttempt(t)
            r3 == ObjectAttempt(t)
        IN  /\ r1.ok => jres = r1.val
            /\ ~r1.ok /\ r2.ok => jres = r2.val /\ jres.k = "arr"
            /\ ~r1.ok /\ ~r2.ok /\ r3.ok =>
                  /\ jres.k = "arr" /\ Len(jres.items) = 1
                  /\ jres.items[1].k = "obj"
                  /\ jres = r3.val
            /\ ~r1.ok /\ ~r2.ok /\ ~r3.ok => jres = JNone
            /\ jres = JNone =>
                  extract_coaches_with_gemini(GeminiReply(200, jtext), school) = <<>>

\* C6 witness: the trimmed response is valid JSON with a fence marker inside
\* a string, and the value returned is not the parse of that response.
C6_Witness ==
    /\ jpc = "ret"
    /\ "t" \in Tokens(jtext)
    /\ json_loads(Strip(jtext)).ok
    /\ jres # json_loads(Strip(jtext)).val
    /\ jres = json_loads(Clean(jtext)).val

----------------------------------------------------------------------------
(* Properties of compact_relevant_text.                                    *)

\* the text holds a whole copy of the line
ContainsLine(text, line) ==
    \E i \in 1..Len(text) : text[i].txt = line.txt /\ text[i].full >= 1

\* characters of "\n".join(lines) that precede the first line of run j
RECURSIVE CharsBefore(_, _)
CharsBefore(bs, j) ==
    IF j <= 1 THEN 0
    ELSE bs[j - 1].n * (bs[j - 1].line.len + 1) + CharsBefore(bs, j - 1)

RECURSIVE LinesBefore(_, _)
LinesBefore(bs, j) == IF j <= 1 THEN 0 ELSE bs[j - 1].n + LinesBefore(bs, j - 1)

IsTextLine(b) == b.line.len > 0
IsRetained(b) == b.line.email \/ b.line.sport \/ b.line.kw

\* C7 as stated: the output contains every non-empty line with an email
\* address, on both paths.
C7_EveryEmailLineKept ==
    cpc = "ret" =>
        \A j \in 1..Len(raw) :
            raw[j].line.email /\ raw[j].line.len > 0 => ContainsLine(compacted, raw[j].line)

\* C7 amended: the output contains every email line that ends within the
\* first 12000 characters of the joined retained lines (filtered path, taken
\* when that join has at least 800 characters), or that is among the first
\* 200 lines and ends within the first 12000 characters of their join
\* (fallback path).
C7_Amended ==
    cpc = "ret" =>
        LET lines == SelectSeq(raw, IsTextLine)
            keep  == SelectSeq(lines, IsRetained)
        IN  IF JoinLen(keep) >= COMPACT_FLOOR_CHARS
            THEN \A j \in 1..Len(keep) :
                    /\ keep[j].line.email
                    /\ CharsBefore(keep, j) + keep[j].line.len
                          <= MAX_CONTENT_CHARS_FOR_GEMINI
                    => ContainsLine(compacted, keep[j].line)
            ELSE \A j \in 1..Len(lines) :
                    /\ lines[j].line.email
                    /\ LinesBefore(lines, j) < FALLBACK_LINES
                    /\ CharsBefore(lines, j) + lines[j].line.len
                          <= MAX_CONTENT_CHARS_FOR_GEMINI
                    => ContainsLine(compacted, lines[j].line)

\* C7 witness: on the filtered path the cut at 12000 characters keeps one
\* email line and loses another.
C7_Witness ==
    /\ cpc = "ret"
    /\ JoinLen(SelectSeq(SelectSeq(raw, IsTextLine), IsRetained)) >= COMPACT_FLOOR_CHARS
    /\ \E i, j \in 1..Len(raw) :
          /\ raw[i].line.email /\ ContainsLine(compacted, raw[i].line)
          /\ raw[j].line.email /\ raw[j].line.len > 0
          /\ ~ContainsLine(compacted, raw[j].line)

----------------------------------------------------------------------------
(* Properties of the records extract_coaches_with_gemini returns.          *)

\* the validated records of the reply, before de-duplication
Validated ==
    IF resp.exc \/ resp.status # 200 THEN <<>>
    ELSE CleanItems(Iterate(robust_json_extract(resp.text)), 1, school)

KeyOf(c) == <<Lower(c.coach_name.s), Lower(c.title.s)>>
FirstOccurrences(v) ==
    {i \in 1..Len(v) : \A j \in 1..(i - 1) : KeyOf(v[j]) # KeyOf(v[i])}
NthOf(F, n) == CHOOSE i \in F : Cardinality({j \in F : j < i}) = n - 1

\* C8: no two returned records share the (lowercased name, lowercased title)
\* key; of the validated records sharing a key only the first is kept, and the
\* kept records are in their original relative order.
C8_DedupeKeepsFirst ==
    epc = "ret" =>
        LET v == Validated
            F == FirstOccurrences(v)
        IN  /\ \A i, j \in 1..Len(out) : i # j => KeyOf(out[i]) # KeyOf(out[j])
            /\ Len(out) = Cardinality(F)
            /\ \A n \in 1..Len(out) : out[n] = v[NthOf(F, n)]

\* C8 witness: a duplicate that is not last was dropped and records on both
\* sides of it were kept.
C8_Witness ==
    /\ epc = "ret"
    /\ Len(Validated) = 3
    /\ Len(out) = 2
    /\ out[2] = Validated[3]

\* C9: every returned record has a name of at least 3 characters that is no
\* placeholder, an email that is null or a trimmed string with "@", and a
\* title that is neither empty nor a placeholder (none/null/n/a).
C9_RecordInvariants ==
    epc = "ret" =>
        \A i \in 1..Len(out) :
            /\ out[i].coach_name.k = "str"
            /\ Len(out[i].coach_name.s) >= 3
            /\ Lower(out[i].coach_name.s) \notin PlaceholderTokens
            /\ \/ out[i].email = None
               \/ /\ out[i].email.k = "str"
                  /\ HasAt(out[i].email.s)
                  /\ Strip(out[i].email.s) = out[i].email.s
            /\ out[i].title.k = "str"
            /\ out[i].title.s # <<>>
            /\ Lower(out[i].title.s) \notin PlaceholderTokens

----------------------------------------------------------------------------
(* Properties of scrape_page_content.                                      *)

ReaderFailed ==
    sreader.exc \/ sreader.status # 200 \/ sreader.len <= SCRAPE_MIN_CHARS
DirectAccepted ==
    ~sdirect.exc /\ sdirect.status = 200 /\ sdirect.len > SCRAPE_MIN_CHARS
WasTried(strategy) == \E i \in 1..Len(stried) : stried[i] = strategy

\* The step-by-step function and the one-step operator used by the pipeline
\* return the same text and attempt the same strategies.
ScrapeAgrees ==
    spc = "ret" =>
        /\ sret = scrape_page_content(surl, sreader, sdirect)
        /\ stried = StrategiesTried(surl, sreader)

\* C11: the reader service is tried first and the direct fetch only after
\* the reader attempt failed (exception, non-200, or at most 500 characters),
\* no strategy is tried twice; the function returns the reader text if the
\* reader succeeded, otherwise the direct text if its status is 200 and it is
\* longer than 500 characters, otherwise None; every text returned is longer
\* than 500 characters.
C11_FallbackChain ==
    /\ stried \in {<<>>, <<"reader">>, <<"reader", "direct">>}
    /\ WasTried("direct") => ReaderFailed
    /\ spc = "direct" => ReaderFailed /\ stried = <<"reader">>
    /\ spc = "ret" =>
          /\ Truthy(surl) => WasTried("reader")
          /\ Truthy(surl) /\ ReaderFailed => WasTried("direct")
          /\ sret = IF WasTried("reader") /\ ~ReaderFailed
                       THEN PageText("reader", sreader.len)
                    ELSE IF WasTried("direct") /\ DirectAccepted
                       THEN PageText("direct", sdirect.len)
                    ELSE NoContent
          /\ sret # NoContent => sret.len > 500

\* C11 witness: the reader answered 200 with exactly 500 characters, so the
\* direct request was made, and its 501 characters of text were returned.
C11_Witness ==
    /\ spc = "ret"
    /\ stried = <<"reader", "direct">>
    /\ ~sreader.exc /\ sreader.status = 200 /\ sreader.len = 500
    /\ sret = PageText("direct", 501)

----------------------------------------------------------------------------
(* Properties of a reply that is one JSON object.                          *)

\* the object of the member token has a name that passes validation
HasValidName(tok) ==
    LET name == Strip(PyStrOf(ItemOf(tok).coach_name))
    IN  Len(name) >= 3 /\ Lower(name) \notin PlaceholderTokens

\* C12: every non-null value robust_json_extract returns is an array, and a
\* reply whose text is exactly one JSON object with a valid name yields
\* exactly one validated record.
C12_ObjectYieldsOneRecord ==
    epc = "ret" /\ ~resp.exc /\ resp.status = 200 =>
        /\ robust_json_extract(resp.text) # JNone
              => robust_json_extract(resp.text).k = "arr"
        /\ \A tok \in MemberTokens :
              resp.text = <<"{", tok, "}">> /\ HasValidName(tok) => Len(out) = 1

====
